---- MODULE Spec2Model ----
(***************************************************************************)
(* Model of the RTIC boot sequence generated by                            *)
(* macros/src/codegen/pre_init.rs (with the helpers of                     *)
(* macros/src/codegen/util.rs) and of the run-time scheduling model the    *)
(* generated code boots: free/ready/timer queues, dispatchers and the      *)
(* priority-ceiling lock.                                                  *)
(*                                                                         *)
(* The application (app, analysis, extra) is the input of codegen; it is   *)
(* drawn from bounded families in the initial states.  codegen yields the  *)
(* list of statements `stmts`; the build evaluates the array-length        *)
(* assertions among them; the boot then executes the statements in order.  *)
(***************************************************************************)
EXTENDS Integers, Sequences, FiniteSets, TLC

VARIABLES
    cfg,            \* app + analysis + extra: the input of codegen
    stmts,          \* the Vec<TokenStream2> codegen returns
    pc,             \* "expand" | "compile" | "build_failed" | "boot" | "init" | "run"
    ip,             \* index of the next boot statement
    primask,        \* TRUE: interrupts globally disabled
    core_taken,     \* TRUE once Peripherals::steal() has run
    fq,             \* task -> Free Queue (sequence of slot indices)
    nvic_prio,      \* interrupt -> hardware priority (NVIC IPR)
    nvic_enabled,   \* set of unmasked interrupts
    scb_prio,       \* system handler -> hardware priority (SCB SHPR)
    syst,           \* SysTick/DCB state: [clock, counter, trace, ops]; ops: the calls made
    scr,            \* System Control Register value
    hwlog,          \* every boot operation performed so far, in order
    basepri,        \* BASEPRI: hardware priority mask, 0 = no masking
    pending,        \* set of pending interrupts and exceptions
    stack,          \* the active handlers, innermost last; <<>> is thread mode
    held,           \* the locks held, innermost last
    rq,             \* ready queue name -> sequence of <<task, slot>>
    tq,             \* the timer queue: entries ordered by due time
    now,            \* the time
    nsched,         \* the number of schedule calls so far
    handed,         \* the due time of the entry handed over last (-1: none yet)
    lock_ret,       \* what the lock call that has just returned returned
    capacity,       \* capacity_typenum: the argument `capacity` (u8)
    round_up,       \* capacity_typenum: the argument `round_up_to_power_of_two`
    typenum,        \* capacity_typenum: <<>> before the call, then its outcome
    INDEX,          \* link_section_index: the static AtomicUsize
    tpc,            \* thread -> "idle" | "fetched": position in link_section_uninit
    tidx,           \* thread -> the index its fetch_add returned
    sections,       \* the section names handed out so far, in order
    ls_ret,         \* thread -> what its last call returned
    ncalls          \* the number of link_section / link_section_uninit calls begun

bootvars == <<cfg, stmts, pc, ip, primask, core_taken, fq, nvic_prio,
              nvic_enabled, scb_prio, syst, scr, hwlog>>

runvars == <<basepri, pending, stack, held, rq, tq, now, nsched, handed, lock_ret>>

utilvars == <<capacity, round_up, typenum, INDEX, tpc, tidx, sections, ls_ret, ncalls>>

vars == <<bootvars, runvars, utilvars>>

-----------------------------------------------------------------------------
(* Bounds of the input families *)

MaxBits == 2        \* NVIC_PRIO_BITS ranges over 1..MaxBits
MaxCap == 3         \* capacities range over 1..MaxCap

Pow2(n) == 2 ^ n

-----------------------------------------------------------------------------
(* Names *)

SwNames == {"A", "B"}
\* the vectors with configurable priority, util.rs is_exception
ExceptionNames == {"MemoryManagement", "BusFault", "UsageFault", "SecureFault",
                   "SVCall", "DebugMonitor", "PendSV", "SysTick"}
\* device interrupts: EXTI0/EXTI1 for hardware tasks, SSI0/QEI0/UART0 free for
\* dispatchers
DeviceInterrupts == {"EXTI0", "EXTI1", "SSI0", "QEI0", "UART0"}
DispatcherNames == <<"SSI0", "QEI0", "UART0">>

\* faulty variant of is_exception: no name is taken for an exception
is_exception_none(name) ==
    FALSE

\* util.rs is_exception
is_exception(name) ==
    name \in ExceptionNames

\* util.rs fq_ident: format!("{}_FQ", task)
fq_ident(task) == task \o "_FQ"

\* util.rs rq_ident: format!("P{}_RQ", priority)
rq_ident(priority) == "P" \o ToString(priority) \o "_RQ"

-----------------------------------------------------------------------------
(* codegen: pre_init.rs *)

Stmt(op, name, prio, cap) == [op |-> op, name |-> name, prio |-> prio, cap |-> cap]

\* one statement per free queue, pre_init.rs 22-33
RECURSIVE FqStmts(_, _)
FqStmts(free_queues, app) ==
    IF free_queues = <<>> THEN <<>>
    ELSE LET name == Head(free_queues)
             cap == app.software_tasks[name].capacity
         IN  <<Stmt("fq_fill", fq_ident(name), 0, cap)>>
             \o FqStmts(Tail(free_queues), app)

\* app.hardware_tasks.values().flat_map(..): the non-exception tasks, 47-54
RECURSIVE NonExceptionTasks(_)
NonExceptionTasks(tasks) ==
    IF tasks = <<>> THEN <<>>
    ELSE (IF ~is_exception(Head(tasks).binds)
          THEN <<[priority |-> Head(tasks).priority, name |-> Head(tasks).binds]>>
          ELSE <<>>)
         \o NonExceptionTasks(Tail(tasks))

\* app.hardware_tasks.values().filter_map(..): the exception tasks, 99-105
RECURSIVE ExceptionTasks(_)
ExceptionTasks(tasks) ==
    IF tasks = <<>> THEN <<>>
    ELSE (IF is_exception(Head(tasks).binds)
          THEN <<[priority |-> Head(tasks).priority, name |-> Head(tasks).binds]>>
          ELSE <<>>)
         \o ExceptionTasks(Tail(tasks))

\* faulty variant of the loop body at 56-70: unmask pushed before set_priority
NvicLoopBody_unmask_first(e) ==
    << Stmt("assert_prio", "", e.priority, 0),
       Stmt("nvic_unmask", e.name, 0, 0),
       Stmt("nvic_set_priority", e.name, e.priority, 0) >>

\* the body of the loop at 56-70: assert, set_priority, unmask
NvicLoopBody(e) ==
    << Stmt("assert_prio", "", e.priority, 0),
       Stmt("nvic_set_priority", e.name, e.priority, 0),
       Stmt("nvic_unmask", e.name, 0, 0) >>

RECURSIVE NvicStmts(_)
NvicStmts(entries) ==
    IF entries = <<>> THEN <<>>
    ELSE NvicLoopBody(Head(entries)) \o NvicStmts(Tail(entries))

\* the body of the loop at 106-112: assert, SCB.set_priority
RECURSIVE ExcStmts(_)
ExcStmts(entries) ==
    IF entries = <<>> THEN <<>>
    ELSE << Stmt("assert_prio", "", Head(entries).priority, 0),
            Stmt("scb_set_priority", Head(entries).name, Head(entries).priority, 0) >>
         \o ExcStmts(Tail(entries))

\* faulty variant of 116-132: the SysTick priority is programmed unasserted
TimerStmts_no_assert(timer_queues) ==
    IF timer_queues = <<>> THEN <<>>
    ELSE LET priority == Head(timer_queues).priority
         IN  << Stmt("scb_set_priority", "SysTick", priority, 0),
                Stmt("syst_init", "", 0, 0) >>

\* 116-132: the SysTick, if a timer queue exists
TimerStmts(timer_queues) ==
    IF timer_queues = <<>> THEN <<>>
    ELSE LET priority == Head(timer_queues).priority
         IN  << Stmt("assert_prio", "", priority, 0),
                Stmt("scb_set_priority", "SysTick", priority, 0),
                Stmt("syst_init", "", 0, 0) >>

\* 135-138: SLEEPONEXIT, if there is no #[idle]
IdleStmts(idles) ==
    IF idles = <<>> THEN << Stmt("scr_sleeponexit", "", 0, 0) >> ELSE <<>>

\* faulty variant of codegen: the free queues are filled before interrupts are
\* disabled
codegen_fill_first(app, analysis) ==
    FqStmts(analysis.free_queues, app)
    \o << Stmt("interrupt_disable", "", 0, 0) >>
    \o << Stmt("steal", "", 0, 0) >>
    \o NvicStmts(analysis.interrupts \o NonExceptionTasks(app.hardware_tasks))
    \o ExcStmts(ExceptionTasks(app.hardware_tasks))
    \o TimerStmts(analysis.timer_queues)
    \o IdleStmts(app.idles)

\* pre_init.rs codegen, 8-155
codegen(app, analysis) ==
    << Stmt("interrupt_disable", "", 0, 0) >>
    \o FqStmts(analysis.free_queues, app)
    \o << Stmt("steal", "", 0, 0) >>
    \o NvicStmts(analysis.interrupts \o NonExceptionTasks(app.hardware_tasks))
    \o ExcStmts(ExceptionTasks(app.hardware_tasks))
    \o TimerStmts(analysis.timer_queues)
    \o IdleStmts(app.idles)

-----------------------------------------------------------------------------
(* The build: the array-length assertions *)

\* faulty variant of the assertion: lengths of 0 rejected as well
ArrayLenOk_strict(bits, priority) ==
    Pow2(bits) - priority > 0

\* `[(); ((1 << NVIC_PRIO_BITS) - priority as usize)]`, 57/107/120: the length
\* is a constant expression in usize; an overflowing subtraction is a
\* compile error, a length of 0 is a legal array type.
ArrayLenOk(bits, priority) ==
    Pow2(bits) - priority >= 0

\* every assertion among the statements compiles
BuildOk(ss, bits) ==
    \A i \in 1..Len(ss) : ss[i].op = "assert_prio" => ArrayLenOk(bits, ss[i].prio)

-----------------------------------------------------------------------------
(* The hardware the boot statements act on *)

\* rtic::export::logical2hw: ((1 << bits) - logical) << (8 - bits), in u8
logical2hw(logical, bits) ==
    ((Pow2(bits) - logical) * Pow2(8 - bits)) % 256

\* bitwise or of two naturals
RECURSIVE BitOr(_, _)
BitOr(a, b) ==
    IF a = 0 THEN b
    ELSE IF b = 0 THEN a
    ELSE (IF (a % 2 = 1) \/ (b % 2 = 1) THEN 1 ELSE 0) + 2 * BitOr(a \div 2, b \div 2)

\* heapless spsc enqueue_unchecked: writes at the tail, no capacity check
enqueue_unchecked(q, i) == Append(q, i)

\* (i..cap).for_each(|i| FQ.enqueue_unchecked(i)), pre_init.rs 31
RECURSIVE FillFrom(_, _, _)
FillFrom(q, i, cap) ==
    IF i >= cap THEN q ELSE FillFrom(enqueue_unchecked(q, i), i + 1, cap)

\* faulty variant of the fill: the range starts at 1
FqFill_from1(q, cap) == FillFrom(q, 1, cap)

\* faulty variant of the fill: the range is 0..=cap
FqFill_one_more(q, cap) == FillFrom(q, 0, cap + 1)

\* the statement pushed at pre_init.rs 30-32, executed
FqFill(q, cap) == FillFrom(q, 0, cap)

-----------------------------------------------------------------------------
(* The input families *)

NameOrder == <<"A", "B">>

\* the members of a set of names, in the order of NameOrder (a BTreeMap's keys)
NamesSeq(S) ==
    LET F[i \in 0..Len(NameOrder)] ==
            IF i = 0 THEN <<>>
            ELSE IF NameOrder[i] \in S THEN Append(F[i - 1], NameOrder[i]) ELSE F[i - 1]
    IN  F[Len(NameOrder)]

\* the members of a set of integers, ascending
RECURSIVE Ascending(_)
Ascending(S) ==
    IF S = {} THEN <<>>
    ELSE LET m == CHOOSE x \in S : \A y \in S : x <= y
         IN  <<m>> \o Ascending(S \ {m})

MaxOf(S) == CHOOSE x \in S : \A y \in S : y <= x

\* analysis.interrupts: one dispatcher interrupt per priority level that has a
\* software task, as a map ordered by priority
DispatcherMap(software_tasks) ==
    LET levels == Ascending({software_tasks[t].priority : t \in DOMAIN software_tasks})
    IN  [i \in 1..Len(levels) |-> [priority |-> levels[i], name |-> DispatcherNames[i]]]

\* the analysis of an application whose tasks in `scheduled` are schedule-d
Analyze(app, scheduled) ==
    [ free_queues  |-> NamesSeq(DOMAIN app.software_tasks),
      interrupts   |-> DispatcherMap(app.software_tasks),
      timer_queues |-> IF scheduled = {} THEN <<>>
                       ELSE <<[priority |->
                                 MaxOf({app.software_tasks[t].priority : t \in scheduled}),
                               tasks |-> scheduled]>> ]

Config(bits, sw, hw, scheduled, idles) ==
    LET app == [software_tasks |-> sw, hardware_tasks |-> hw, idles |-> idles,
                spawns |-> <<>>, schedules |-> <<>>, pends |-> <<>>,
                resources |-> <<>>]
    IN  [app |-> app, analysis |-> Analyze(app, scheduled), bits |-> bits]

\* the priorities tried on a device with `bits` priority bits: the lowest, the
\* two around the top of the range, and the first beyond it
PriorityChoices(bits) == {1, Pow2(bits) - 1, Pow2(bits), Pow2(bits) + 1}

SwTask(bits) == [priority : PriorityChoices(bits), capacity : 1..MaxCap]

\* the software tasks: A alone, or A and B with B at A's level or above
SwFamilies(bits) ==
    [{"A"} -> SwTask(bits)]
    \cup {sw \in [{"A", "B"} -> SwTask(bits)] : sw["A"].priority <= sw["B"].priority}

\* the hardware tasks: none, one bound to a device interrupt, one bound to an
\* exception, or both
HwFamilies(bits) ==
    {<<>>}
    \cup {<<[binds |-> "EXTI0", priority |-> p]>> : p \in PriorityChoices(bits)}
    \cup {<<[binds |-> "PendSV", priority |-> p]>> : p \in PriorityChoices(bits)}
    \cup {<<[binds |-> "EXTI0", priority |-> p], [binds |-> "PendSV", priority |-> q]>> :
            p \in PriorityChoices(bits), q \in PriorityChoices(bits)}

-----------------------------------------------------------------------------
(* State *)

RqNames(c) == {rq_ident(e.priority) : e \in {c.analysis.interrupts[i] :
                                                i \in 1..Len(c.analysis.interrupts)}}

FqNames(c) == {fq_ident(t) : t \in DOMAIN c.app.software_tasks}

\* the threads that expand macros, util.rs 138-142
MaxThreads == 2
Threads == 1..MaxThreads

\* no helper of util.rs has been called
UtilInit ==
    /\ capacity = 0
    /\ round_up = FALSE
    /\ typenum = <<>>
    /\ INDEX = 0
    /\ tpc = [t \in Threads |-> "idle"]
    /\ tidx = [t \in Threads |-> 0]
    /\ sections = <<>>
    /\ ls_ret = [t \in Threads |-> "none yet"]
    /\ ncalls = 0

\* the state of the machine before the macro expands, for the application c
MachineInit(c, scrs) ==
    /\ cfg = c
    /\ stmts = <<>>
    /\ pc = "expand"
    /\ ip = 1
    /\ primask = FALSE
    /\ core_taken = FALSE
    /\ fq = [n \in FqNames(cfg) |-> <<>>]
    /\ nvic_prio = [i \in DeviceInterrupts |-> 0]
    /\ nvic_enabled = {}
    /\ scb_prio = [e \in ExceptionNames |-> 0]
    /\ syst = [clock |-> "External", counter |-> FALSE, trace |-> FALSE, ops |-> <<>>]
    /\ scr \in scrs
    /\ hwlog = <<>>
    /\ basepri = 0
    /\ pending = {}
    /\ stack = <<>>
    /\ held = <<>>
    /\ rq = [n \in RqNames(c) |-> <<>>]
    /\ tq = <<>>
    /\ now = 0
    /\ nsched = 0
    /\ handed = -1
    /\ lock_ret = <<>>

\* the state before the macro expands, for the application c
InitOf(c, scrs) ==
    /\ UtilInit
    /\ MachineInit(c, scrs)

\* the macro expands: codegen returns the boot statements
Expand ==
    /\ pc = "expand"
    /\ stmts' = codegen(cfg.app, cfg.analysis)
    /\ pc' = "compile"
    /\ UNCHANGED <<cfg, ip, primask, core_taken, fq, nvic_prio, nvic_enabled,
                   scb_prio, syst, scr, hwlog, basepri, stack, held, rq, tq, now,
                   nsched, handed, lock_ret>>
    /\ UNCHANGED pending
    /\ UNCHANGED utilvars

\* the compiler evaluates the array lengths: the build fails or the image boots
Compile ==
    /\ pc = "compile"
    /\ pc' = IF BuildOk(stmts, cfg.bits) THEN "boot" ELSE "build_failed"
    /\ UNCHANGED <<cfg, stmts, ip, primask, core_taken, fq, nvic_prio, nvic_enabled,
                   scb_prio, syst, scr, hwlog, basepri, stack, held, rq, tq, now,
                   nsched, handed, lock_ret>>
    /\ UNCHANGED pending
    /\ UNCHANGED utilvars

\* the boot is about to execute a statement of kind `op`
AtStmt(op) ==
    /\ pc = "boot"
    /\ ip <= Len(stmts)
    /\ stmts[ip].op = op

Advance ==
    /\ ip' = ip + 1
    /\ hwlog' = Append(hwlog, stmts[ip])
    /\ UNCHANGED <<cfg, stmts, pc>>
    /\ UNCHANGED runvars
    /\ UNCHANGED utilvars

\* faulty variant of the first statement: interrupts stay enabled
InterruptDisable_noop ==
    /\ AtStmt("interrupt_disable")
    /\ primask' = primask
    /\ Advance
    /\ UNCHANGED <<core_taken, fq, nvic_prio, nvic_enabled, scb_prio, syst, scr>>

\* rtic::export::interrupt::disable();
InterruptDisable ==
    /\ AtStmt("interrupt_disable")
    /\ primask' = TRUE
    /\ Advance
    /\ UNCHANGED <<core_taken, fq, nvic_prio, nvic_enabled, scb_prio, syst, scr>>

\* (0..cap).for_each(|i| FQ.enqueue_unchecked(i));
FqPopulate ==
    /\ AtStmt("fq_fill")
    /\ fq' = [fq EXCEPT ![stmts[ip].name] = FqFill(@, stmts[ip].cap)]
    /\ Advance
    /\ UNCHANGED <<primask, core_taken, nvic_prio, nvic_enabled, scb_prio, syst, scr>>

\* let mut core = Peripherals::steal().into();
Steal ==
    /\ AtStmt("steal")
    /\ core_taken' = TRUE
    /\ Advance
    /\ UNCHANGED <<primask, fq, nvic_prio, nvic_enabled, scb_prio, syst, scr>>

\* let _ = [(); N];  nothing happens at run time
AssertPrio ==
    /\ AtStmt("assert_prio")
    /\ Advance
    /\ UNCHANGED <<primask, core_taken, fq, nvic_prio, nvic_enabled, scb_prio, syst, scr>>

\* core.NVIC.set_priority(interrupt, logical2hw(priority, NVIC_PRIO_BITS));
NvicSetPriority ==
    /\ AtStmt("nvic_set_priority")
    /\ nvic_prio' = [nvic_prio EXCEPT
                        ![stmts[ip].name] = logical2hw(stmts[ip].prio, cfg.bits)]
    /\ Advance
    /\ UNCHANGED <<primask, core_taken, fq, nvic_enabled, scb_prio, syst, scr>>

\* faulty variant of the statement at 70: the interrupt is pended as well
NvicUnmask_pend ==
    /\ AtStmt("nvic_unmask")
    /\ nvic_enabled' = nvic_enabled \cup {stmts[ip].name}
    /\ pending' = pending \cup {stmts[ip].name}
    /\ ip' = ip + 1
    /\ hwlog' = Append(hwlog, stmts[ip])
    /\ UNCHANGED <<cfg, stmts, pc>>
    /\ UNCHANGED <<basepri, stack, held, rq, tq, now, nsched, handed, lock_ret>>
    /\ UNCHANGED utilvars
    /\ UNCHANGED <<primask, core_taken, fq, nvic_prio, scb_prio, syst, scr>>

\* NVIC::unmask(interrupt);
NvicUnmask ==
    /\ AtStmt("nvic_unmask")
    /\ nvic_enabled' = nvic_enabled \cup {stmts[ip].name}
    /\ Advance
    /\ UNCHANGED <<primask, core_taken, fq, nvic_prio, scb_prio, syst, scr>>

\* core.SCB.set_priority(SystemHandler, logical2hw(priority, NVIC_PRIO_BITS));
ScbSetPriority ==
    /\ AtStmt("scb_set_priority")
    /\ scb_prio' = [scb_prio EXCEPT
                        ![stmts[ip].name] = logical2hw(stmts[ip].prio, cfg.bits)]
    /\ Advance
    /\ UNCHANGED <<primask, core_taken, fq, nvic_prio, nvic_enabled, syst, scr>>

\* one call on the system timer or the debug block
SystCall(s, op) ==
    LET t == [s EXCEPT !.ops = Append(@, op)]
    IN  IF op = "set_clock_source" THEN [t EXCEPT !.clock = "Core"]
        ELSE IF op = "enable_counter" THEN [t EXCEPT !.counter = TRUE]
        ELSE [t EXCEPT !.trace = TRUE]

RECURSIVE SystCalls(_, _)
SystCalls(s, ops) ==
    IF ops = <<>> THEN s ELSE SystCalls(SystCall(s, Head(ops)), Tail(ops))

\* faulty variant of the statement at 127-131: the counter is started first
SystInitOps_counter_first ==
    <<"enable_counter", "set_clock_source", "enable_trace">>

\* the calls of the statement at 127-131, in order
SystInitOps ==
    <<"set_clock_source", "enable_counter", "enable_trace">>

\* core.SYST.set_clock_source(Core); core.SYST.enable_counter(); core.DCB.enable_trace();
SystInit ==
    /\ AtStmt("syst_init")
    /\ syst' = SystCalls(syst, SystInitOps)
    /\ Advance
    /\ UNCHANGED <<primask, core_taken, fq, nvic_prio, nvic_enabled, scb_prio, scr>>

\* faulty variant of the statement at 137: the register is overwritten
ScrSleepOnExit_overwrite ==
    /\ AtStmt("scr_sleeponexit")
    /\ scr' = 2
    /\ Advance
    /\ UNCHANGED <<primask, core_taken, fq, nvic_prio, nvic_enabled, scb_prio, syst>>

\* core.SCB.scr.modify(|r| r | 1 << 1);
ScrSleepOnExit ==
    /\ AtStmt("scr_sleeponexit")
    /\ scr' = BitOr(scr, 2)
    /\ Advance
    /\ UNCHANGED <<primask, core_taken, fq, nvic_prio, nvic_enabled, scb_prio, syst>>

BootStmt ==
    \/ InterruptDisable
    \/ FqPopulate
    \/ Steal
    \/ AssertPrio
    \/ NvicSetPriority
    \/ NvicUnmask
    \/ ScbSetPriority
    \/ SystInit
    \/ ScrSleepOnExit

\* the last boot statement has been executed
BootFinished == pc = "boot" /\ ip = Len(stmts) + 1

\* the wide family of applications: every combination of the task families on
\* every device width
BootInit ==
    \E bits \in 1..MaxBits :
        \E sw \in SwFamilies(bits), hw \in HwFamilies(bits),
           scheduled \in {{}, {"A"}}, idles \in {<<>>, <<"idle">>} :
            InitOf(Config(bits, sw, hw, scheduled, idles), {0, 4})

BootNext == Expand \/ Compile \/ BootStmt

\* the build and the boot sequence, over the wide family of applications
BootSpec == BootInit /\ [][BootNext]_vars

-----------------------------------------------------------------------------
(* The generated Mutex implementation: util.rs impl_mutex *)

\* faulty variant of impl_mutex: the caller's static priority level handed over
\* as the ceiling
impl_mutex_wrong_ceiling(bits, name, ceiling, priority) ==
    [ name |-> name, priority |-> priority, ceiling |-> priority, bits |-> bits ]

\* faulty variant of impl_mutex: the ceiling follows the caller's priority
impl_mutex_raised_ceiling(bits, name, ceiling, priority) ==
    [ name |-> name, priority |-> priority,
      ceiling |-> IF priority > ceiling THEN priority ELSE ceiling, bits |-> bits ]

\* the arguments the generated `lock` hands to rtic::export::lock: the
\* caller's priority, the constant CEILING, the device's NVIC_PRIO_BITS
impl_mutex(bits, name, ceiling, priority) ==
    [ name |-> name, priority |-> priority, ceiling |-> ceiling, bits |-> bits ]

-----------------------------------------------------------------------------
(* The run-time model *)

MaxSlots == 2       \* capacity of the software task A at run time
MaxTime == 1        \* the time runs over 0..MaxTime
MaxSchedules == 2   \* schedule is called at most this many times

\* the resources an application declares, each with the contexts that access it
RunApp(bits, sw, hw, idles, spawns, schedules, pends, resources, scheduled) ==
    LET base == Config(bits, sw, hw, scheduled, idles)
        prio(x) == IF x \in DOMAIN sw THEN sw[x].priority
                   ELSE IF x = "idle" THEN 0
                   ELSE (CHOOSE t \in {hw[i] : i \in 1..Len(hw)} : t.binds = x).priority
    IN  [ app |-> [base.app EXCEPT !.spawns = spawns, !.schedules = schedules,
                                   !.pends = pends, !.resources = resources],
          analysis |-> [ free_queues |-> base.analysis.free_queues,
                         interrupts |-> base.analysis.interrupts,
                         timer_queues |-> base.analysis.timer_queues,
                         ceilings |-> [r \in DOMAIN resources |->
                                          MaxOf({prio(x) : x \in resources[r]})] ],
          bits |-> bits ]

\* an application on a device with 3 priority bits: software tasks A and B,
\* hardware tasks on EXTI0 and PendSV (at priority `top`), resources R (A,
\* EXTI0) and S (A, PendSV); A is spawned and scheduled by EXTI0, B is
\* spawned and PendSV is pended by A
RunConfig(cap, top, pb, idles) ==
    RunApp(3,
           [t \in {"A", "B"} |-> IF t = "A" THEN [priority |-> 2, capacity |-> cap]
                                 ELSE [priority |-> pb, capacity |-> 1]],
           << [binds |-> "EXTI0", priority |-> 5], [binds |-> "PendSV", priority |-> top] >>,
           idles,
           [x \in {"EXTI0", "A"} |-> IF x = "EXTI0" THEN {"A"} ELSE {"B"}],
           [x \in {"EXTI0"} |-> {"A"}],
           [x \in {"A"} |-> {"PendSV"}],
           [r \in {"R", "S"} |-> IF r = "R" THEN {"A", "EXTI0"} ELSE {"A", "PendSV"}],
           {"A"})

RunInit ==
    InitOf(RunConfig(MaxSlots, 8, 3, <<>>), {0})

\* the application of the scenario of section 8: task A at priority 2 with
\* capacity 4
ScenarioInit ==
    InitOf(RunConfig(4, 8, 3, <<>>), {0})

Top == stack[Len(stack)]

Interrupts(c) == {c.analysis.interrupts[i] : i \in 1..Len(c.analysis.interrupts)}
HwTasks(c) == {c.app.hardware_tasks[i] : i \in 1..Len(c.app.hardware_tasks)}

IsDispatcher(v) == \E e \in Interrupts(cfg) : e.name = v
DispatcherOf(p) == (CHOOSE e \in Interrupts(cfg) : e.priority = p).name

\* the logical priority a vector was configured with
StaticPrio(v) ==
    IF IsDispatcher(v) THEN (CHOOSE e \in Interrupts(cfg) : e.name = v).priority
    ELSE IF \E t \in HwTasks(cfg) : t.binds = v
         THEN (CHOOSE t \in HwTasks(cfg) : t.binds = v).priority
    ELSE cfg.analysis.timer_queues[1].priority

KindOf(v) ==
    IF IsDispatcher(v) THEN "dispatcher"
    ELSE IF \E t \in HwTasks(cfg) : t.binds = v THEN "hw"
    ELSE "timer"

\* the hardware's view of a vector
HwPrioOf(v) == IF v \in ExceptionNames THEN scb_prio[v] ELSE nvic_prio[v]
VecEnabled(v) == v \in ExceptionNames \/ v \in nvic_enabled
ActivePrio == IF stack = <<>> THEN 256 ELSE HwPrioOf(Top.vec)

\* the processor takes v now: pending, enabled, not masked by PRIMASK or
\* BASEPRI, and more urgent than the active handler
CanTake(v) ==
    /\ v \in pending
    /\ VecEnabled(v)
    /\ ~primask
    /\ IF basepri = 0 THEN TRUE ELSE HwPrioOf(v) < basepri
    /\ HwPrioOf(v) < ActivePrio

NoPreempt == \A v \in pending : ~CanTake(v)

\* the task whose body is running: a software task, a hardware task, idle
CtxId ==
    IF stack = <<>> THEN (IF cfg.app.idles = <<>> THEN "none" ELSE "idle")
    ELSE IF Top.kind = "hw" THEN Top.vec
    ELSE IF Top.kind = "dispatcher" /\ Top.cur # <<>> THEN Top.cur[1]
    ELSE "none"

ListOf(f, x) == IF x \in DOMAIN f THEN f[x] ELSE {}

Frozen == UNCHANGED <<cfg, stmts, pc, ip, core_taken, nvic_prio, nvic_enabled,
                      scb_prio, syst, scr, hwlog>>

\* init returns and interrupts are enabled
PostInit ==
    /\ BootFinished
    /\ pc' = "run"
    /\ primask' = FALSE
    /\ UNCHANGED <<cfg, stmts, ip, core_taken, nvic_prio, nvic_enabled,
                   scb_prio, syst, scr, hwlog, fq>>
    /\ UNCHANGED runvars
    /\ UNCHANGED utilvars

\* the device raises the interrupt of a hardware task
Pend ==
    /\ pc \in {"boot", "run"}
    /\ \E t \in HwTasks(cfg) :
          /\ t.binds \notin ExceptionNames
          /\ t.binds \notin pending
          /\ pending' = pending \cup {t.binds}
    /\ UNCHANGED utilvars
    /\ lock_ret' = <<>>
    /\ UNCHANGED <<bootvars, basepri, stack, held, rq, tq, now, nsched, handed>>

\* a task body pends the exception of a hardware task (SCB::set_pendsv)
PendException ==
    /\ pc = "run" /\ NoPreempt
    /\ \E v \in ListOf(cfg.app.pends, CtxId) :
          /\ v \notin pending
          /\ pending' = pending \cup {v}
    /\ UNCHANGED utilvars
    /\ lock_ret' = <<>>
    /\ UNCHANGED <<bootvars, basepri, stack, held, rq, tq, now, nsched, handed>>

\* exception entry: the most urgent vector the processor can take
TakeInterrupt ==
    /\ pc \in {"boot", "run"}
    /\ \E v \in pending :
          /\ CanTake(v)
          /\ \A w \in pending : CanTake(w) => HwPrioOf(v) <= HwPrioOf(w)
          /\ pending' = pending \ {v}
          /\ stack' = Append(stack, [vec |-> v, kind |-> KindOf(v),
                                      prio |-> StaticPrio(v), cur |-> <<>>])
    /\ UNCHANGED utilvars
    /\ lock_ret' = <<>>
    /\ UNCHANGED <<bootvars, basepri, held, rq, tq, now, nsched, handed>>

Pop(q) == SubSeq(q, 1, Len(q) - 1)

LocksOfTop == {i \in 1..Len(held) : held[i].depth = Len(stack)}

\* a hardware task returns
HwTaskReturn ==
    /\ pc = "run" /\ NoPreempt
    /\ stack # <<>> /\ Top.kind = "hw"
    /\ LocksOfTop = {}
    /\ stack' = Pop(stack)
    /\ UNCHANGED utilvars
    /\ lock_ret' = <<>>
    /\ UNCHANGED <<bootvars, basepri, pending, held, rq, tq, now, nsched, handed>>

\* spawn: a slot leaves the Free Queue for the Ready Queue of the task's
\* priority, and the dispatcher is pended
Spawn ==
    /\ pc = "run" /\ NoPreempt
    /\ \E t \in ListOf(cfg.app.spawns, CtxId) :
          LET f == fq_ident(t)
              r == rq_ident(cfg.app.software_tasks[t].priority)
          IN  /\ fq[f] # <<>>
              /\ fq' = [fq EXCEPT ![f] = Tail(@)]
              /\ rq' = [rq EXCEPT ![r] = Append(@, <<t, Head(fq[f])>>)]
              /\ pending' = pending \cup {DispatcherOf(cfg.app.software_tasks[t].priority)}
    /\ UNCHANGED utilvars
    /\ lock_ret' = <<>>
    /\ Frozen
    /\ UNCHANGED <<primask, basepri, stack, held, tq, now, nsched, handed>>

\* faulty variant of the insertion: the new entry goes before its equals
TqInsert_before_equals(q, e) ==
    LET k == Cardinality({i \in 1..Len(q) : q[i].due < e.due})
    IN  SubSeq(q, 1, k) \o <<e>> \o SubSeq(q, k + 1, Len(q))

\* the timer queue keeps its entries by due time; a new entry goes behind
\* the entries due at the same time
TqInsert(q, e) ==
    LET k == Cardinality({i \in 1..Len(q) : q[i].due <= e.due})
    IN  SubSeq(q, 1, k) \o <<e>> \o SubSeq(q, k + 1, Len(q))

\* schedule: a slot leaves the Free Queue for the Timer Queue; the timer is
\* pended when the head of the queue changed
Schedule ==
    /\ pc = "run" /\ NoPreempt
    /\ nsched < MaxSchedules
    /\ \E t \in ListOf(cfg.app.schedules, CtxId), due \in 0..MaxTime :
          LET f == fq_ident(t)
              e == [due |-> due, task |-> t, slot |-> Head(fq[f]), seq |-> nsched]
          IN  /\ fq[f] # <<>>
              /\ fq' = [fq EXCEPT ![f] = Tail(@)]
              /\ tq' = TqInsert(tq, e)
              /\ pending' = IF tq'[1] = e THEN pending \cup {"SysTick"} ELSE pending
    /\ nsched' = nsched + 1
    /\ UNCHANGED utilvars
    /\ lock_ret' = <<>>
    /\ Frozen
    /\ UNCHANGED <<primask, basepri, stack, held, rq, now, handed>>

\* time passes; the timer fires when the head of the Timer Queue is due
Tick ==
    /\ pc = "run"
    /\ syst.counter
    /\ now < MaxTime
    /\ now' = now + 1
    /\ pending' = IF tq # <<>> /\ tq[1].due <= now' THEN pending \cup {"SysTick"}
                  ELSE pending
    /\ UNCHANGED utilvars
    /\ lock_ret' = <<>>
    /\ UNCHANGED <<bootvars, basepri, stack, held, rq, tq, nsched, handed>>

\* the timer handler hands the head of the Timer Queue, which is due, to the
\* Ready Queue of its task and pends the dispatcher
TimerPop ==
    /\ pc = "run" /\ NoPreempt
    /\ stack # <<>> /\ Top.kind = "timer"
    /\ tq # <<>> /\ tq[1].due <= now
    /\ LET e == Head(tq)
           p == cfg.app.software_tasks[e.task].priority
       IN  /\ tq' = Tail(tq)
           /\ rq' = [rq EXCEPT ![rq_ident(p)] = Append(@, <<e.task, e.slot>>)]
           /\ pending' = pending \cup {DispatcherOf(p)}
           /\ handed' = e.due
    /\ UNCHANGED utilvars
    /\ lock_ret' = <<>>
    /\ UNCHANGED <<bootvars, basepri, stack, held, now, nsched>>

\* the timer handler returns: nothing is due
TimerReturn ==
    /\ pc = "run" /\ NoPreempt
    /\ stack # <<>> /\ Top.kind = "timer"
    /\ IF tq = <<>> THEN TRUE ELSE tq[1].due > now
    /\ stack' = Pop(stack)
    /\ UNCHANGED utilvars
    /\ lock_ret' = <<>>
    /\ UNCHANGED <<bootvars, basepri, pending, held, rq, tq, now, nsched, handed>>

\* faulty variant of the dequeue: the newest entry is taken
RqTake_last(q) == [entry |-> q[Len(q)], rest |-> SubSeq(q, 1, Len(q) - 1)]

\* the dispatcher dequeues the oldest entry of its Ready Queue
RqTake(q) == [entry |-> Head(q), rest |-> Tail(q)]

\* the dispatcher takes an entry and starts the task
DispatchPop ==
    /\ pc = "run" /\ NoPreempt
    /\ stack # <<>> /\ Top.kind = "dispatcher" /\ Top.cur = <<>>
    /\ LET r == rq_ident(StaticPrio(Top.vec))
       IN  /\ rq[r] # <<>>
           /\ rq' = [rq EXCEPT ![r] = RqTake(rq[r]).rest]
           /\ stack' = [stack EXCEPT ![Len(stack)].cur = RqTake(rq[r]).entry]
    /\ UNCHANGED utilvars
    /\ lock_ret' = <<>>
    /\ UNCHANGED <<bootvars, basepri, pending, held, tq, now, nsched, handed>>

\* the task has run to completion: its slot returns to its Free Queue
TaskComplete ==
    /\ pc = "run" /\ NoPreempt
    /\ stack # <<>> /\ Top.kind = "dispatcher" /\ Top.cur # <<>>
    /\ LocksOfTop = {}
    /\ fq' = [fq EXCEPT ![fq_ident(Top.cur[1])] = Append(@, Top.cur[2])]
    /\ stack' = [stack EXCEPT ![Len(stack)].cur = <<>>]
    /\ UNCHANGED utilvars
    /\ lock_ret' = <<>>
    /\ Frozen
    /\ UNCHANGED <<primask, basepri, pending, held, rq, tq, now, nsched, handed>>

\* the dispatcher returns: its Ready Queue is empty
DispatcherReturn ==
    /\ pc = "run" /\ NoPreempt
    /\ stack # <<>> /\ Top.kind = "dispatcher" /\ Top.cur = <<>>
    /\ rq[rq_ident(StaticPrio(Top.vec))] = <<>>
    /\ stack' = Pop(stack)
    /\ UNCHANGED utilvars
    /\ lock_ret' = <<>>
    /\ UNCHANGED <<bootvars, basepri, pending, held, rq, tq, now, nsched, handed>>

\* the highest logical priority BASEPRI can mask on a device with `bits` bits
MaxMaskable(bits) == Pow2(bits) - 1

\* how rtic::export::lock protects the body
LockMode(priority, ceiling, bits) ==
    IF priority >= ceiling THEN "none"
    ELSE IF ceiling > MaxMaskable(bits) THEN "primask"
    ELSE "basepri"

\* a task body locks a resource it shares with a task of higher priority (the
\* tasks at the ceiling are handed the resource itself): lock entry
Lock ==
    /\ pc = "run" /\ NoPreempt
    /\ stack # <<>>
    /\ \E r \in DOMAIN cfg.app.resources :
          LET m == impl_mutex(cfg.bits, r, cfg.analysis.ceilings[r], Top.prio)
              mode == LockMode(m.priority, m.ceiling, m.bits)
          IN  /\ CtxId \in cfg.app.resources[r]
              /\ StaticPrio(Top.vec) < cfg.analysis.ceilings[r]
              /\ \A i \in LocksOfTop : held[i].res # r
              /\ held' = Append(held, [res |-> r, depth |-> Len(stack), mode |-> mode,
                                       ceiling |-> m.ceiling, bits |-> m.bits,
                                       old_prio |-> m.priority,
                                       old_primask |-> primask])
              /\ basepri' = IF mode = "basepri" THEN logical2hw(m.ceiling, m.bits)
                            ELSE basepri
              /\ primask' = IF mode = "primask" THEN TRUE ELSE primask
              /\ stack' = [stack EXCEPT ![Len(stack)].prio =
                              IF mode = "basepri" THEN m.ceiling
                              ELSE IF mode = "primask" THEN 255 ELSE @]
    /\ UNCHANGED utilvars
    /\ lock_ret' = <<>>
    /\ Frozen
    /\ UNCHANGED <<fq, pending, rq, tq, now, nsched, handed>>

\* what the body returns: here, the number of locks it was nested in
BodyResult(h) == h.depth + Len(held)

\* what lock returns when the body returned r
LockResult(r) == r

\* the body of the innermost lock of the running task exits: lock exit
Unlock ==
    /\ pc = "run" /\ NoPreempt
    /\ held # <<>> /\ held[Len(held)].depth = Len(stack)
    /\ LET h == held[Len(held)]
       IN  /\ held' = Pop(held)
           /\ basepri' = IF h.mode = "basepri" THEN logical2hw(h.old_prio, h.bits)
                         ELSE basepri
           /\ primask' = IF h.mode = "primask" THEN h.old_primask ELSE primask
           /\ stack' = [stack EXCEPT ![Len(stack)].prio =
                           IF h.mode = "none" THEN @ ELSE h.old_prio]
    /\ UNCHANGED utilvars
    /\ lock_ret' = [body |-> BodyResult(held[Len(held)]),
                     ret |-> LockResult(BodyResult(held[Len(held)]))]
    /\ Frozen
    /\ UNCHANGED <<fq, pending, rq, tq, now, nsched, handed>>

RunStep ==
    \/ PostInit
    \/ Pend
    \/ PendException
    \/ TakeInterrupt
    \/ HwTaskReturn
    \/ Spawn
    \/ Schedule
    \/ Tick
    \/ TimerPop
    \/ TimerReturn
    \/ DispatchPop
    \/ TaskComplete
    \/ DispatcherReturn
    \/ Lock
    \/ Unlock

Init == RunInit

Next == Expand \/ Compile \/ BootStmt \/ RunStep

\* the build, the boot and the running system, for the applications of RunInit
Spec == Init /\ [][Next]_vars

\* the same, for the application of the scenario
ScenarioSpec == ScenarioInit /\ [][Next]_vars

\* the application of RunInit with B at the priority of A: the two tasks
\* share one Ready Queue and one dispatcher
SharedInit ==
    InitOf(RunConfig(MaxSlots, 8, 2, <<>>), {0})

SharedSpec == SharedInit /\ [][Next]_vars

-----------------------------------------------------------------------------
(* util.rs capacity_typenum *)

U8Max == 255        \* capacity: u8

\* the least power of two that is >= n, searched from p
RECURSIVE NextPow2From(_, _)
NextPow2From(p, n) == IF p >= n THEN p ELSE NextPow2From(2 * p, n)

\* faulty variant of checked_next_power_of_two: the result wraps in u8
checked_next_power_of_two_wrapping(n) ==
    [some |-> TRUE, val |-> NextPow2From(1, n) % (U8Max + 1)]

\* u8::checked_next_power_of_two: None when the power of two does not fit u8
checked_next_power_of_two(n) ==
    LET p == NextPow2From(1, n)
    IN  IF p <= U8Max THEN [some |-> TRUE, val |-> p]
        ELSE [some |-> FALSE, val |-> 0]

\* util.rs 16-26: the type-level integer for `capacity`, or the panic of
\* expect("UNREACHABLE")
capacity_typenum(cap, round_up_to_power_of_two) ==
    LET r == checked_next_power_of_two(cap)
    IN  IF round_up_to_power_of_two /\ ~r.some
        THEN [panic |-> "UNREACHABLE", tokens |-> ""]
        ELSE [panic |-> "",
              tokens |-> "rtic::export::consts::U"
                         \o ToString(IF round_up_to_power_of_two THEN r.val ELSE cap)]

\* a call of capacity_typenum
CapacityTypenum ==
    /\ typenum = <<>>
    /\ typenum' = capacity_typenum(capacity, round_up)
    /\ UNCHANGED <<capacity, round_up, INDEX, tpc, tidx, sections, ls_ret, ncalls>>
    /\ UNCHANGED <<bootvars, runvars>>

\* every capacity, with and without rounding
TypenumInit ==
    /\ MachineInit(RunConfig(MaxSlots, 8, 3, <<>>), {0})
    /\ capacity \in 0..U8Max
    /\ round_up \in BOOLEAN
    /\ typenum = <<>>
    /\ INDEX = 0
    /\ tpc = [t \in Threads |-> "idle"]
    /\ tidx = [t \in Threads |-> 0]
    /\ sections = <<>>
    /\ ls_ret = [t \in Threads |-> "none yet"]
    /\ ncalls = 0

TypenumNext == CapacityTypenum

TypenumSpec == TypenumInit /\ [][TypenumNext]_vars

-----------------------------------------------------------------------------
(* util.rs link_section_index, link_section, link_section_uninit *)

MaxCalls == 4       \* link_section / link_section_uninit are called at most this often

\* faulty variant of link_section_index: the counter is read, not advanced
link_section_index_stale(index) ==
    [ret |-> index, next |-> index]

\* INDEX.fetch_add(1, Ordering::Relaxed): one atomic read-modify-write that
\* returns the previous value
link_section_index(index) ==
    [ret |-> index, next |-> index + 1]

\* link_section: returns None and calls nothing
LinkSection(t) ==
    /\ tpc[t] = "idle"
    /\ ncalls < MaxCalls
    /\ ncalls' = ncalls + 1
    /\ ls_ret' = [ls_ret EXCEPT ![t] = "None"]
    /\ UNCHANGED <<capacity, round_up, typenum, INDEX, tpc, tidx, sections>>
    /\ UNCHANGED <<bootvars, runvars>>

\* link_section_uninit(empty_expr), up to the return of link_section_index:
\* 158-159 when empty_expr, 162 otherwise
LinkSectionUninitFetch(t) ==
    /\ tpc[t] = "idle"
    /\ ncalls < MaxCalls
    /\ ncalls' = ncalls + 1
    /\ \E empty_expr \in BOOLEAN :
          LET r == link_section_index(INDEX)
              index == IF empty_expr THEN r.ret ELSE r.ret
          IN  /\ INDEX' = r.next
              /\ tidx' = [tidx EXCEPT ![t] = index]
    /\ tpc' = [tpc EXCEPT ![t] = "fetched"]
    /\ UNCHANGED <<capacity, round_up, typenum, sections, ls_ret>>
    /\ UNCHANGED <<bootvars, runvars>>

\* link_section_uninit: format!(".uninit.rtic{}", index) and the return, 160-165
LinkSectionUninitReturn(t) ==
    /\ tpc[t] = "fetched"
    /\ LET section == ".uninit.rtic" \o ToString(tidx[t])
       IN  /\ sections' = Append(sections, section)
           /\ ls_ret' = [ls_ret EXCEPT ![t] = section]
    /\ tpc' = [tpc EXCEPT ![t] = "idle"]
    /\ UNCHANGED <<capacity, round_up, typenum, INDEX, tidx, ncalls>>
    /\ UNCHANGED <<bootvars, runvars>>

LinkInit ==
    /\ MachineInit(RunConfig(MaxSlots, 8, 3, <<>>), {0})
    /\ UtilInit

LinkNext ==
    \E t \in Threads :
        \/ LinkSection(t)
        \/ LinkSectionUninitFetch(t)
        \/ LinkSectionUninitReturn(t)

\* the threads of the macro calling link_section and link_section_uninit
LinkSpec == LinkInit /\ [][LinkNext]_vars

-----------------------------------------------------------------------------
(* Properties of the build and of the boot sequence *)

SeqRange(q) == {q[i] : i \in 1..Len(q)}

\* the interrupts of the interrupt-controller pass: the dispatchers and the
\* hardware tasks not bound to an exception
NvicInterrupts(c) ==
    {e.name : e \in SeqRange(c.analysis.interrupts)}
    \cup {t.binds : t \in {u \in SeqRange(c.app.hardware_tasks) : u.binds \notin ExceptionNames}}

\* every priority the application configures: dispatchers, hardware tasks
\* (interrupts and exceptions), timer queue
ConfiguredPriorities(c) ==
    {e.priority : e \in SeqRange(c.analysis.interrupts)}
    \cup {t.priority : t \in SeqRange(c.app.hardware_tasks)}
    \cup {q.priority : q \in SeqRange(c.analysis.timer_queues)}

\* no hardware register and no queue has been touched
Untouched ==
    /\ hwlog = <<>>
    /\ primask = FALSE
    /\ ~core_taken
    /\ nvic_enabled = {}
    /\ \A i \in DeviceInterrupts : nvic_prio[i] = 0
    /\ \A e \in ExceptionNames : scb_prio[e] = 0
    /\ ~syst.counter
    /\ \A n \in DOMAIN fq : fq[n] = <<>>

\* C1: every unmask of an interrupt is preceded by a set_priority of the same
\* interrupt, and when the boot has finished every interrupt of the
\* interrupt-controller pass has been programmed and unmasked.
C1_PriorityBeforeUnmask ==
    /\ \A j \in 1..Len(hwlog) :
          hwlog[j].op = "nvic_unmask" =>
             \E i \in 1..(j - 1) :
                /\ hwlog[i].op = "nvic_set_priority"
                /\ hwlog[i].name = hwlog[j].name
    /\ \A n \in nvic_enabled :
          \E i \in 1..Len(hwlog) :
             hwlog[i].op = "nvic_set_priority" /\ hwlog[i].name = n
    /\ BootFinished => nvic_enabled = NvicInterrupts(cfg)

\* a dispatcher interrupt and a hardware task's interrupt have both been
\* programmed and unmasked
C1_Witness ==
    /\ BootFinished
    /\ {"SSI0", "EXTI0"} \subseteq nvic_enabled

\* C2: when the boot has finished, the Free Queue of every software task of
\* capacity C holds 0, 1, .., C-1 in this order and nothing else.
C2_FreeQueueFilled ==
    BootFinished =>
        \A t \in DOMAIN cfg.app.software_tasks :
            LET C == cfg.app.software_tasks[t].capacity
            IN  fq[fq_ident(t)] = [i \in 1..C |-> i - 1]

\* two software tasks with capacities 3 and 2 have been booted
C2_Witness ==
    /\ BootFinished
    /\ DOMAIN cfg.app.software_tasks = {"A", "B"}
    /\ cfg.app.software_tasks["A"].capacity = 3
    /\ cfg.app.software_tasks["B"].capacity = 2
    /\ Len(fq["A_FQ"]) = 3

StepOf(ss, i) ==
    LET s == IF ss[i].op = "assert_prio" THEN ss[i + 1] ELSE ss[i]
    IN  CASE s.op = "interrupt_disable" -> 1
          [] s.op = "fq_fill" -> 2
          [] s.op = "steal" -> 3
          [] s.op \in {"nvic_set_priority", "nvic_unmask"} -> 4
          [] s.op = "scb_set_priority" /\ s.name # "SysTick" -> 5
          [] s.op = "scb_set_priority" /\ s.name = "SysTick" -> 6
          [] s.op = "syst_init" -> 6
          [] s.op = "scr_sleeponexit" -> 7

PeripheralOps == {"nvic_set_priority", "nvic_unmask", "scb_set_priority",
                  "syst_init", "scr_sleeponexit"}

StepsDone == {StepOf(stmts, i) : i \in 1..Len(hwlog)}

\* C4: the boot performs its operations in the order of the steps 1..7, each
\* step complete before the next starts; the first operation disables
\* interrupts; no peripheral is accessed before the handles are acquired;
\* steps 1..3 always occur, step 6 iff a timer queue exists, step 7 iff there
\* is no idle task.
C4_StepOrder ==
    /\ \A i \in 1..Len(hwlog) : hwlog[i] = stmts[i]
    /\ \A i, j \in 1..Len(hwlog) : i < j => StepOf(stmts, i) <= StepOf(stmts, j)
    /\ Len(hwlog) >= 1 => hwlog[1].op = "interrupt_disable"
    /\ \A j \in 1..Len(hwlog) :
          hwlog[j].op \in PeripheralOps =>
             \E i \in 1..(j - 1) : hwlog[i].op = "steal"
    /\ BootFinished =>
          /\ {1, 3} \subseteq StepsDone
          /\ Cardinality({i \in 1..Len(hwlog) : hwlog[i].op = "fq_fill"})
                = Cardinality(DOMAIN cfg.app.software_tasks)
          /\ (4 \in StepsDone) <=> (NvicInterrupts(cfg) # {})
          /\ (6 \in StepsDone) <=> (cfg.analysis.timer_queues # <<>>)
          /\ (7 \in StepsDone) <=> (cfg.app.idles = <<>>)

\* a boot that went through all seven steps
C4_Witness ==
    /\ BootFinished
    /\ StepsDone = 1..7

-----------------------------------------------------------------------------
(* Properties of the running system *)

Booting == pc \in {"expand", "compile", "boot"}

\* C5: from the first boot statement to the last, interrupts are globally
\* disabled, and no handler (hardware task or dispatcher) is active at any
\* point of the build and the boot, whatever is pending and unmasked.
C5_BootMasked ==
    /\ (pc = "boot" /\ ip > 1) => primask
    /\ (pc = "boot" /\ ip > 1) => hwlog[1].op = "interrupt_disable"
    /\ Booting => stack = <<>>

\* during the boot the interrupt of a hardware task is pending and unmasked,
\* and is not taken
C5_Witness ==
    /\ pc = "boot"
    /\ "EXTI0" \in pending
    /\ "EXTI0" \in nvic_enabled
    /\ stack = <<>>

\* the places a slot of task t can be in: each a sequence of slots
SlotsInRq(t) ==
    UNION {{<<r, i>> : i \in {j \in 1..Len(rq[r]) : rq[r][j][1] = t}} : r \in DOMAIN rq}

\* how many times slot k of task t occurs in the Free Queue, in the Ready
\* Queues, in the Timer Queue and in the executing dispatchers
Holders(t, k) ==
    Cardinality({i \in 1..Len(fq[fq_ident(t)]) : fq[fq_ident(t)][i] = k})
    + Cardinality({x \in SlotsInRq(t) : rq[x[1]][x[2]][2] = k})
    + Cardinality({i \in 1..Len(tq) : tq[i].task = t /\ tq[i].slot = k})
    + Cardinality({i \in 1..Len(stack) : stack[i].cur = <<t, k>>})

\* every slot held somewhere is a slot of the task
SlotsHeld(t) ==
    {fq[fq_ident(t)][i] : i \in 1..Len(fq[fq_ident(t)])}
    \cup {rq[x[1]][x[2]][2] : x \in SlotsInRq(t)}
    \cup {tq[i].slot : i \in {j \in 1..Len(tq) : tq[j].task = t}}
    \cup {stack[i].cur[2] : i \in {j \in 1..Len(stack) : stack[j].cur # <<>> /\ stack[j].cur[1] = t}}

hw2logical(h, bits) == Pow2(bits) - (h \div Pow2(8 - bits))

\* the execution priority of the processor: PRIMASK raises it to 0, BASEPRI to
\* its value, an active handler to the handler's priority
ExecPrio ==
    IF primask THEN 0
    ELSE LET b == IF basepri = 0 THEN 256 ELSE basepri
         IN  IF b < ActivePrio THEN b ELSE ActivePrio

\* the effective priority mask, as a logical priority: what is at or below it
\* cannot preempt
EffectiveMask == hw2logical(ExecPrio, cfg.bits)

\* the ceiling of the resource a lock record is about
CeilingOf(h) == cfg.analysis.ceilings[h.res]

\* a lock entered from a priority below the ceiling
Raising(h) == h.old_prio < CeilingOf(h)

TaskOf(f) ==
    IF f.kind = "hw" THEN f.vec
    ELSE IF f.kind = "dispatcher" /\ f.cur # <<>> THEN f.cur[1]
    ELSE "none"

\* C8: every handler that runs on top of a task holding the lock of a resource
\* with ceiling c was configured with a priority above c and is no task that
\* accesses the resource; no resource is locked twice at once.
C8_CeilingExcludes ==
    /\ \A i \in 1..Len(held) : \A j \in 1..Len(stack) :
          j > held[i].depth =>
             /\ StaticPrio(stack[j].vec) > CeilingOf(held[i])
             /\ TaskOf(stack[j]) \notin cfg.app.resources[held[i].res]
    /\ \A i, j \in 1..Len(held) : i # j => held[i].res # held[j].res

\* a task holding the lock of R (ceiling 5) has been preempted by the
\* hardware task of priority 8 while the hardware task of priority 5, which
\* shares R, is pending
C8_Witness ==
    /\ Len(held) >= 1 /\ held[1].res = "R" /\ held[1].mode = "basepri"
    /\ Len(stack) > held[1].depth
    /\ stack[held[1].depth + 1].vec = "PendSV"
    /\ "EXTI0" \in pending

\* the slots a..b in ascending order, and the Ready Queue entries of task t
\* for them
SlotsFromTo(a, b) == [i \in 1..(b - a + 1) |-> a + i - 1]
EntriesFromTo(t, a, b) == [i \in 1..(b - a + 1) |-> <<t, a + i - 1>>]

\* q2 is q1 with one more entry at its tail
Appended(q1, q2) ==
    Len(q2) = Len(q1) + 1 /\ SubSeq(q2, 1, Len(q1)) = q1

\* a step treats Ready Queue r as a FIFO: it leaves it alone, or adds one
\* entry at its tail, or removes its head, which the dispatcher then executes
RqFifoStep(r) ==
    IF rq'[r] = rq[r] THEN TRUE
    ELSE IF Len(rq'[r]) > Len(rq[r]) THEN Appended(rq[r], rq'[r])
    ELSE /\ rq'[r] = Tail(rq[r])
         /\ stack' # <<>>
         /\ stack'[Len(stack')].cur = Head(rq[r])

\* a step of the running system treats the Free Queue of task t as a FIFO: it
\* leaves it alone, or adds the slot of the completed instance at its tail, or
\* removes its head, which goes to the tail of the Ready Queue or into the
\* Timer Queue
FqFifoStep(t) ==
    LET f == fq_ident(t)
        r == rq_ident(cfg.app.software_tasks[t].priority)
    IN  IF fq'[f] = fq[f] THEN TRUE
        ELSE IF Len(fq'[f]) > Len(fq[f])
        THEN /\ Appended(fq[f], fq'[f])
             /\ stack # <<>>
             /\ stack[Len(stack)].cur = <<t, fq'[f][Len(fq'[f])]>>
        ELSE /\ fq'[f] = Tail(fq[f])
             /\ \/ rq'[r] = Append(rq[r], <<t, Head(fq[f])>>)
                \/ \E i \in 1..Len(tq') :
                      /\ tq'[i].task = t /\ tq'[i].slot = Head(fq[f])
                      /\ Len(tq') = Len(tq) + 1

\* the scenario: Free Queue of A is 0,1,2,3; three spawns take 0, 1, 2 in
\* that order; the dispatcher executes 0, 1, 2 in that order; the slots return
\* behind 3 in that order
ScenarioSpawn(k) ==
    ( /\ pc = "run"
      /\ fq["A_FQ"] = SlotsFromTo(k, 3)
      /\ rq["P2_RQ"] = EntriesFromTo("A", 0, k - 1)
      /\ fq'["A_FQ"] # fq["A_FQ"]
      /\ tq' = tq )
    => /\ fq'["A_FQ"] = SlotsFromTo(k + 1, 3)
       /\ rq'["P2_RQ"] = EntriesFromTo("A", 0, k)

ScenarioDispatch(j) ==
    ( /\ pc = "run"
      /\ rq["P2_RQ"] = EntriesFromTo("A", j, 2)
      /\ Len(rq'["P2_RQ"]) < Len(rq["P2_RQ"]) )
    => /\ stack'[Len(stack')].cur = <<"A", j>>
       /\ rq'["P2_RQ"] = EntriesFromTo("A", j + 1, 2)

ScenarioReturn(j) ==
    ( /\ pc = "run"
      /\ fq["A_FQ"] = <<3>> \o SlotsFromTo(0, j - 1)
      /\ rq["P2_RQ"] = EntriesFromTo("A", j + 1, 2)
      /\ Len(fq'["A_FQ"]) > Len(fq["A_FQ"]) )
    => fq'["A_FQ"] = <<3>> \o SlotsFromTo(0, j)

\* C9: every step of the running system treats every Ready Queue and every
\* Free Queue as a FIFO, so instances of one priority are dispatched in the
\* order they were enqueued and slots are handed out in the order they were
\* returned; with capacity 4, three spawns take the slots 0, 1, 2, the
\* dispatcher executes them in that order, and the Free Queue is then 3,0,1,2.
C9_Fifo ==
    /\ [][ pc = "run" =>
             /\ \A r \in DOMAIN rq : RqFifoStep(r)
             /\ \A t \in DOMAIN cfg.app.software_tasks : FqFifoStep(t) ]_vars
    /\ [][ \A k \in 0..2 :
             ScenarioSpawn(k) /\ ScenarioDispatch(k) /\ ScenarioReturn(k) ]_vars

\* the end of the scenario: nothing was ever scheduled, the Ready Queue is
\* drained and the Free Queue of A is 3,0,1,2
C9_Witness ==
    /\ pc = "run"
    /\ nsched = 0
    /\ stack = <<>>
    /\ rq["P2_RQ"] = <<>>
    /\ fq["A_FQ"] = <<3, 0, 1, 2>>

\* entry a is handed over before entry b
Before(a, b) ==
    a.due < b.due \/ (a.due = b.due /\ a.seq < b.seq)

-----------------------------------------------------------------------------
(* Properties of the queues' capacities *)

\* the sum of the capacities of the software tasks in `tasks`
RECURSIVE CapSum(_, _)
CapSum(c, tasks) ==
    IF tasks = {} THEN 0
    ELSE LET t == CHOOSE x \in tasks : TRUE
         IN  c.app.software_tasks[t].capacity + CapSum(c, tasks \ {t})

\* the software tasks whose instances wait in Ready Queue r
TasksOfRq(c, r) ==
    {t \in DOMAIN c.app.software_tasks : rq_ident(c.app.software_tasks[t].priority) = r}

\* C11: no Free Queue ever holds more than the capacity of its task and the
\* boot leaves exactly that many indices in it; no Ready Queue ever holds more
\* than the capacities of the tasks of its priority together; every step that
\* lengthens a queue by an unchecked enqueue starts below that limit.
C11_NoOverflow ==
    /\ [](\A t \in DOMAIN cfg.app.software_tasks :
            /\ Len(fq[fq_ident(t)]) <= cfg.app.software_tasks[t].capacity
            /\ BootFinished =>
                  Len(fq[fq_ident(t)]) = cfg.app.software_tasks[t].capacity)
    /\ [](\A r \in DOMAIN rq : Len(rq[r]) <= CapSum(cfg, TasksOfRq(cfg, r)))
    /\ [][ /\ \A t \in DOMAIN cfg.app.software_tasks :
                Len(fq'[fq_ident(t)]) > Len(fq[fq_ident(t)])
                   => Len(fq'[fq_ident(t)]) <= cfg.app.software_tasks[t].capacity
           /\ \A r \in DOMAIN rq :
                Len(rq'[r]) > Len(rq[r])
                   => Len(rq[r]) < CapSum(cfg, TasksOfRq(cfg, r)) ]_vars

\* instances of A and of B wait in the one Ready Queue of priority 2 while
\* the Free Queue of B is empty
C11_Witness ==
    /\ pc = "run"
    /\ \E i, j \in 1..Len(rq["P2_RQ"]) :
          rq["P2_RQ"][i][1] = "A" /\ rq["P2_RQ"][j][1] = "B"
    /\ fq["B_FQ"] = <<>>

-----------------------------------------------------------------------------
(* Properties of the two priority passes *)

\* the positions of the boot operations `op` on the vector `name`
OpsOn(op, name) ==
    {j \in 1..Len(hwlog) : hwlog[j].op = op /\ hwlog[j].name = name}

\* C12: a hardware task bound to one of the eight exceptions is never handed
\* to the interrupt controller (set_priority, unmask) and, once the boot has
\* finished, has had its priority programmed exactly once through the SCB;
\* every other hardware task is never programmed through the SCB and, once
\* the boot has finished, has been programmed and unmasked exactly once
\* through the interrupt controller.
C12_OnePassPerTask ==
    \A t \in SeqRange(cfg.app.hardware_tasks) :
        IF t.binds \in {"MemoryManagement", "BusFault", "UsageFault", "SecureFault",
                        "SVCall", "DebugMonitor", "PendSV", "SysTick"}
        THEN /\ OpsOn("nvic_set_priority", t.binds) = {}
             /\ OpsOn("nvic_unmask", t.binds) = {}
             /\ t.binds \notin nvic_enabled
             /\ BootFinished =>
                   /\ Cardinality(OpsOn("scb_set_priority", t.binds)) = 1
                   /\ \A j \in OpsOn("scb_set_priority", t.binds) :
                         hwlog[j].prio = t.priority
                   /\ scb_prio[t.binds] = logical2hw(t.priority, cfg.bits)
        ELSE /\ OpsOn("scb_set_priority", t.binds) = {}
             /\ BootFinished =>
                   /\ Cardinality(OpsOn("nvic_set_priority", t.binds)) = 1
                   /\ Cardinality(OpsOn("nvic_unmask", t.binds)) = 1
                   /\ \A j \in OpsOn("nvic_set_priority", t.binds) :
                         hwlog[j].prio = t.priority
                   /\ nvic_prio[t.binds] = logical2hw(t.priority, cfg.bits)
                   /\ t.binds \in nvic_enabled

\* the boot of an application with a hardware task bound to EXTI0 and one
\* bound to PendSV has finished
C12_Witness ==
    /\ BootFinished
    /\ {t.binds : t \in SeqRange(cfg.app.hardware_tasks)} = {"EXTI0", "PendSV"}
    /\ OpsOn("scb_set_priority", "PendSV") # {}
    /\ OpsOn("nvic_unmask", "EXTI0") # {}

\* the operations that write a priority register
PriorityOps == {"nvic_set_priority", "scb_set_priority"}

\* statement i of ss programs a priority and statement i-1 is the assertion
\* on the same priority
AssertedAt(ss, i) ==
    /\ i > 1
    /\ ss[i - 1].op = "assert_prio"
    /\ ss[i - 1].prio = ss[i].prio

\* C13: in the statements codegen returns, and so in what the boot executes,
\* every set_priority (interrupt controller, SCB, SysTick) directly follows
\* the width assertion on the same priority value; every priority the boot
\* has written to a register passed that assertion for the device's width.
C13_AssertBeforeProgram ==
    /\ \A i \in 1..Len(stmts) :
          stmts[i].op \in PriorityOps => AssertedAt(stmts, i)
    /\ \A j \in 1..Len(hwlog) :
          hwlog[j].op \in PriorityOps =>
             /\ AssertedAt(hwlog, j)
             /\ Pow2(cfg.bits) - hwlog[j].prio >= 0

\* the boot has programmed a priority through each of the three places: the
\* interrupt controller, the SCB for a hardware task, the SCB for the SysTick
C13_Witness ==
    /\ BootFinished
    /\ \E j \in 1..Len(hwlog) : hwlog[j].op = "nvic_set_priority"
    /\ OpsOn("scb_set_priority", "PendSV") # {}
    /\ OpsOn("scb_set_priority", "SysTick") # {}

-----------------------------------------------------------------------------
(* Properties of the timer and of the sleep-on-exit step *)

\* the system timer as it is before the boot
SystAtReset ==
    [clock |-> "External", counter |-> FALSE, trace |-> FALSE, ops |-> <<>>]

\* the position of call op among the calls made on the timer, 0 if not made
CallPos(op) ==
    IF \E i \in 1..Len(syst.ops) : syst.ops[i] = op
    THEN CHOOSE i \in 1..Len(syst.ops) : syst.ops[i] = op
    ELSE 0

\* C14: codegen emits the timer initialisation exactly when a timer queue
\* exists.  When one exists, the initialisation directly follows the
\* programming of the SysTick priority with the priority of the timer queue,
\* selects the clock source before it starts the counter, and no interrupt or
\* exception priority is programmed after it; at the end of the boot the
\* counter runs.  When none exists, the timer is as it was at reset and the
\* SysTick priority has not been programmed.
C14_TimerInit ==
    /\ pc # "expand" =>
          ((\E i \in 1..Len(stmts) : stmts[i].op = "syst_init")
              <=> cfg.analysis.timer_queues # <<>>)
    /\ \A j \in 1..Len(hwlog) :
          hwlog[j].op = "syst_init" =>
             /\ j > 1
             /\ hwlog[j - 1].op = "scb_set_priority"
             /\ hwlog[j - 1].name = "SysTick"
             /\ hwlog[j - 1].prio = cfg.analysis.timer_queues[1].priority
             /\ scb_prio["SysTick"] = logical2hw(hwlog[j - 1].prio, cfg.bits)
             /\ \A k \in (j + 1)..Len(hwlog) :
                   hwlog[k].op \notin {"nvic_set_priority", "nvic_unmask",
                                       "scb_set_priority", "assert_prio"}
             /\ syst.clock = "Core" /\ syst.counter
             /\ CallPos("set_clock_source") > 0
             /\ CallPos("set_clock_source") < CallPos("enable_counter")
    /\ (syst # SystAtReset) =>
          \E j \in 1..Len(hwlog) : hwlog[j].op = "syst_init"
    /\ BootFinished =>
          /\ syst.counter <=> cfg.analysis.timer_queues # <<>>
          /\ \A n \in NvicInterrupts(cfg) : OpsOn("nvic_set_priority", n) # {}
          /\ \A t \in SeqRange(cfg.app.hardware_tasks) :
                OpsOn("nvic_set_priority", t.binds) # {}
                \/ OpsOn("scb_set_priority", t.binds) # {}
    /\ cfg.analysis.timer_queues = <<>> =>
          /\ syst = SystAtReset
          /\ OpsOn("scb_set_priority", "SysTick") = {}
          /\ scb_prio["SysTick"] = 0

\* the boot of an application with a timer queue, a dispatcher and an
\* exception task has initialised the timer
C14_Witness ==
    /\ BootFinished
    /\ cfg.analysis.timer_queues # <<>>
    /\ syst.ops = <<"set_clock_source", "enable_counter", "enable_trace">>
    /\ OpsOn("scb_set_priority", "PendSV") # {}
    /\ scb_prio["SysTick"] # 0

\* the boot of an application without a timer queue has finished
C14_WitnessNoTimer ==
    /\ BootFinished
    /\ cfg.analysis.timer_queues = <<>>
    /\ ~syst.counter

\* bit n of the natural number v
Bit(v, n) == (v \div Pow2(n)) % 2

\* C15: codegen emits the sleep-on-exit statement exactly when the
\* application has no idle task, and as its last statement; the only step of
\* the boot that changes the system control register executes it, sets bit 1
\* and leaves every other bit as it was, and the boot is finished after it.
C15_SleepOnExit ==
    /\ [](pc # "expand" =>
            /\ (\E i \in 1..Len(stmts) : stmts[i].op = "scr_sleeponexit")
                  <=> cfg.app.idles = <<>>
            /\ \A i \in 1..Len(stmts) :
                  stmts[i].op = "scr_sleeponexit" => i = Len(stmts))
    /\ [](BootFinished => (Bit(scr, 1) = 1 <=> cfg.app.idles = <<>>))
    /\ [][ (pc = "boot" /\ ip' # ip) =>
             IF stmts[ip].op = "scr_sleeponexit"
             THEN /\ Bit(scr', 1) = 1
                  /\ \A n \in (0..7) \ {1} : Bit(scr', n) = Bit(scr, n)
                  /\ scr' < 256
                  /\ cfg.app.idles = <<>>
                  /\ ip' = Len(stmts) + 1
             ELSE scr' = scr ]_vars

\* an application without idle task has booted with another bit of the
\* system control register set from the start: both bits are set
C15_Witness ==
    /\ BootFinished
    /\ cfg.app.idles = <<>>
    /\ scr = 6
    /\ hwlog[Len(hwlog)].op = "scr_sleeponexit"

-----------------------------------------------------------------------------
(* Properties of the helpers of util.rs *)

\* p is the least power of two that is >= n
LeastPow2(p, n) ==
    \E k \in 0..8 : p = Pow2(k) /\ p >= n /\ (k = 0 \/ Pow2(k - 1) < n)

\* C16 as stated: for every capacity 0..255, with rounding the call does not
\* panic and yields the least power of two >= capacity; without rounding it
\* yields the capacity.
C16_TypenumAllCapacities ==
    typenum # <<>> =>
        /\ typenum.panic = ""
        /\ IF round_up
           THEN \E p \in 1..256 :
                   /\ LeastPow2(p, capacity)
                   /\ typenum.tokens = "rtic::export::consts::U" \o ToString(p)
           ELSE typenum.tokens = "rtic::export::consts::U" \o ToString(capacity)

\* what holds of capacity_typenum: with rounding, a capacity 0..128 yields
\* the least power of two >= capacity and a capacity 129..255 panics with
\* "UNREACHABLE"; without rounding every capacity is yielded unchanged.
C16_TypenumUpTo128 ==
    typenum # <<>> =>
        IF round_up
        THEN IF capacity <= 128
             THEN /\ typenum.panic = ""
                  /\ \E p \in 1..128 :
                        /\ LeastPow2(p, capacity)
                        /\ typenum.tokens = "rtic::export::consts::U" \o ToString(p)
             ELSE typenum.panic = "UNREACHABLE"
        ELSE /\ typenum.panic = ""
             /\ typenum.tokens = "rtic::export::consts::U" \o ToString(capacity)

\* capacity 129 with rounding: the call has panicked
C16_Witness ==
    /\ capacity = 129
    /\ round_up
    /\ typenum # <<>>
    /\ typenum.panic = "UNREACHABLE"

\* the indices that have been fetched and not yet handed out as a section
InFlight == {tidx[t] : t \in {u \in Threads : tpc[u] = "fetched"}}

\* C17: the counter starts at 0; the sections handed out are pairwise
\* distinct, the indices fetched by calls still running are pairwise distinct,
\* and together they are exactly 0..INDEX-1; every step that changes the
\* counter is the fetch of one link_section_uninit call, adds one and hands
\* that call the previous value; a call of link_section leaves the counter.
C17_DistinctSections ==
    /\ [](ncalls = 0 => INDEX = 0)
    /\ [](\A i, j \in 1..Len(sections) : i # j => sections[i] # sections[j])
    /\ [](\A t, u \in Threads :
            (t # u /\ tpc[t] = "fetched" /\ tpc[u] = "fetched") => tidx[t] # tidx[u])
    /\ []({sections[i] : i \in 1..Len(sections)}
             = {".uninit.rtic" \o ToString(k) : k \in (0..(INDEX - 1)) \ InFlight})
    /\ [](InFlight \subseteq 0..(INDEX - 1))
    /\ [][ INDEX' # INDEX =>
             /\ INDEX' = INDEX + 1
             /\ \E t \in Threads :
                   tpc[t] = "idle" /\ tpc'[t] = "fetched" /\ tidx'[t] = INDEX ]_vars
    /\ [][ (ncalls' # ncalls /\ tpc' = tpc) =>
             /\ INDEX' = INDEX
             /\ \E t \in Threads : ls_ret'[t] = "None" ]_vars
    /\ [][ (ncalls' # ncalls /\ tpc' # tpc) => INDEX' # INDEX ]_vars

\* two calls of link_section_uninit run at once, after a call of link_section
\* and a completed call of link_section_uninit
C17_Witness ==
    /\ \A t \in Threads : t <= 2 => tpc[t] = "fetched"
    /\ tidx[1] # tidx[2]
    /\ sections = <<".uninit.rtic0">>
    /\ ncalls = 4
    /\ INDEX = 3

-----------------------------------------------------------------------------
(* Properties of the generated lock and of the end of the boot *)

\* C18: every lock held was entered with the ceiling computed for its
\* resource at generation time and with the device's priority-bit width; the
\* step that enters a lock hands over the caller's current priority, and no
\* step changes the ceilings.
C18_ConstantCeiling ==
    /\ [](\A i \in 1..Len(held) :
            /\ held[i].ceiling = cfg.analysis.ceilings[held[i].res]
            /\ held[i].bits = cfg.bits)
    /\ [][ Len(held') > Len(held) =>
             LET h == held'[Len(held')]
             IN  /\ h.ceiling = cfg.analysis.ceilings[h.res]
                 /\ h.bits = cfg.bits
                 /\ h.old_prio = stack[Len(stack)].prio
                 /\ SubSeq(held', 1, Len(held)) = held ]_vars
    /\ [][ cfg' = cfg ]_vars

\* S (ceiling 8) is locked at priority 5, inside the lock of R, by the task
\* that locks it at priority 2 elsewhere; R (ceiling 5) is locked at priority 2
C18_Witness ==
    /\ Len(held) = 2
    /\ held[1].res = "R" /\ held[1].old_prio = 2 /\ held[1].ceiling = 5
    /\ held[2].res = "S" /\ held[2].old_prio = 5 /\ held[2].ceiling = 8

\* R is locked inside the lock of S, at the raised priority
C18_WitnessNested ==
    /\ Len(held) = 2
    /\ held[1].res = "S" /\ held[1].old_prio = 2
    /\ held[2].res = "R" /\ held[2].old_prio > 5 /\ held[2].ceiling = 5

\* the interrupts the device raises for hardware tasks
DeviceRaised(c) ==
    {t.binds : t \in {u \in SeqRange(c.app.hardware_tasks) : u.binds \notin ExceptionNames}}

\* C19: a step of the boot sequence leaves the Ready Queues, the Timer Queue,
\* the pending interrupts and all other run-time state as they are; until
\* init returns every Ready Queue and the Timer Queue is empty and nothing but
\* an interrupt raised by a device is pending; when the boot has finished
\* every slot of every software task is in its Free Queue.
C19_BootFrame ==
    /\ [][ (pc = "boot" /\ ip' # ip) =>
             /\ rq' = rq /\ tq' = tq /\ pending' = pending
             /\ UNCHANGED runvars ]_vars
    /\ [](Booting =>
            /\ \A r \in DOMAIN rq : rq[r] = <<>>
            /\ tq = <<>>
            /\ pending \subseteq DeviceRaised(cfg)
            /\ stack = <<>> /\ held = <<>> /\ nsched = 0)
    /\ [](BootFinished =>
            \A t \in DOMAIN cfg.app.software_tasks :
               fq[fq_ident(t)] = SlotsFromTo(0, cfg.app.software_tasks[t].capacity - 1))

\* the boot has finished, with the dispatchers unmasked and the interrupt of
\* a hardware task raised by its device meanwhile
C19_Witness ==
    /\ BootFinished
    /\ "EXTI0" \in pending
    /\ {e.name : e \in SeqRange(cfg.analysis.interrupts)} \subseteq nvic_enabled
    /\ cfg.analysis.interrupts # <<>>
    /\ syst.counter

====
